---- MODULE Spec2Model ----
(***************************************************************************)
(* Contact Enrichment Flow (src/hello.py): a Prefect flow that fetches a   *)
(* LinkedIn profile and its posts, asks an LLM whether the CRM record is   *)
(* stale, regenerates the description and writes it back to Airtable.      *)
(*                                                                         *)
(* Python values are encoded as strings (None, a missing key, "") or as    *)
(* records with a kind; texts are sequences of tokens, so that formatting  *)
(* and the markdown-fence regular expressions are computed, not assumed.   *)
(***************************************************************************)
EXTENDS Integers, Sequences, FiniteSets, TLC

\* ------------------------------------------------------------- Python values

\* A key that is not in the mapping.
Absent == "<absent>"
\* Python's None (JSON null).
PyNone == "<None>"
\* Python truthiness of a string-or-None value read with .get (a missing key
\* read with default "" is the empty string).
Truthy(v) == v \notin {Absent, PyNone, ""}

\* dict.get(key, default): the default only replaces a missing key, never a null.
GetOr(v, default) == IF v = Absent THEN default ELSE v

\* ----------------------------------------------------------------- bounds

\* Longest posts list a flow run receives from the Posts Fetcher.
MaxFlowPosts == 1
\* Longest posts list handed to the Recency Filter on its own.
MaxPosts == 3
\* Longest LLM response (in tokens) handed to extract_json_from_response on its own.
MaxResp == 7
\* Longest underlying JSON content (in tokens) that is wrapped in fences.
MaxContent == 4
\* Post dates range over days 0..MaxDay; "now" falls on day MaxDay + 6.
MaxDay == 2

\* ------------------------------------------------------ program constants

\* @task(name="Linkedin Profile", retries=2, ...)
ProfileRetries == 2
\* @task(name="Linkedin Posts", retries=2, ...)
PostsRetries == 2
\* @task(name="Compare Profiles", retries=2, ...)
CompareRetries == 2
\* @task(name="Update Airtable Record", retries=2, ...)
UpdateRetries == 2
\* timedelta(days=7)
WindowDays == 7
\* @task(name="Resume Pipedream Workflow", retries=3, retry_delay_seconds=10)
ResumeRetries == 3
ResumeRetryDelay == 10
\* retry_delay_seconds of the other four tasks.
ProfileRetryDelay == 300
PostsRetryDelay == 300
CompareRetryDelay == 30
UpdateRetryDelay == 30

\* ------------------------------------------------------------- the runs

RunIds == {"r1", "r2"}
RecordIds == {"rec1", "rec2"}

\* The trigger payload: data (None when absent), its "fields" entry (missing,
\* null or a map), the map's "LinkedIn" entry and the payload's "id" entry.
Url == "https://www.linkedin.com/in/jo smith"
NoPayload == [present |-> FALSE, fields |-> Absent, LinkedIn |-> Absent, id |-> Absent]
Payloads ==
    {NoPayload}
    \cup [present : {TRUE}, fields : {Absent, PyNone}, LinkedIn : {Absent},
          id : {Absent, "", "rec1"}]
    \cup [present : {TRUE}, fields : {"map"}, LinkedIn : {Absent, PyNone, "", Url},
          id : {Absent, "", "rec1"}]

\* _data = data or {}; fields = _data.get("fields", {}): "map" for a mapping
\* (the default {} included), None when the payload carries "fields": null.
FieldsOf(d) == IF d.fields = Absent THEN "map" ELSE d.fields
\* linkedin_url = fields.get("LinkedIn", "")
LinkedInOf(d) == GetOr(d.LinkedIn, "")
\* record_id = _data.get("id", "")
RecordIdOf(d) == GetOr(d.id, "")

\* urllib.parse.quote(linkedin_url, safe=":/?&="): the space is percent-encoded.
Quote(u) == IF u = Url THEN "https://www.linkedin.com/in/jo%20smith" ELSE u

\* The environment: which credentials are set.
Envs == [openrouter : BOOLEAN, airtable : BOOLEAN]

\* ------------------------------------------------------------------ texts

\* A text is a sequence of tokens; its string is their concatenation.
NL == "\n"
SP == " "
\* The indentation the flow's triple-quoted f-strings carry inside the text.
Indent8 == "        "
Indent12 == "            "

\* f"{v}": None prints as "None", the empty string as nothing.
FStr(v) == IF v = PyNone THEN <<"None">> ELSE IF v = "" THEN <<>> ELSE <<v>>

RECURSIVE Concat(_)
\* "".join(texts)
Concat(texts) ==
    IF texts = <<>> THEN <<>> ELSE Head(texts) \o Concat(Tail(texts))

\* All sequences over S of length at most n.
SeqsUpTo(S, n) == UNION {[1..k -> S] : k \in 0..n}

\* ----------------------------------------------------------- fetched bodies

\* One work experience entry of the profile; each field a string, null or missing.
ExpFull == [company |-> "Acme", title |-> "CEO", date_range |-> "2020 - Present",
            description |-> "Runs the company"]
ExpSparse == [company |-> "Initech", title |-> Absent, date_range |-> PyNone,
              description |-> Absent]

\* The "experiences" entry of the profile: missing, null or a list.
NoExperiences == [kind |-> Absent, items |-> <<>>]
ExperienceValues ==
    {NoExperiences, [kind |-> PyNone, items |-> <<>>]}
    \cup {[kind |-> "list", items |-> xs] : xs \in {<<>>, <<ExpFull>>, <<ExpFull, ExpSparse>>}}

\* The JSON body of the enrich-lead endpoint with the HTTP status it came with:
\* its "data" entry is missing (an API error body), null or a profile object.
NoProfile == [status |-> 0, data |-> "unset", about |-> Absent, experiences |-> NoExperiences]
ProfileBodies ==
    [status : {200}, data : {"obj"}, about : {"Seasoned operator"},
     experiences : ExperienceValues]
    \cup [status : {200}, data : {PyNone}, about : {Absent},
          experiences : {NoExperiences}]
    \cup [status : {404, 500}, data : {Absent}, about : {Absent},
          experiences : {NoExperiences}]

\* A naive datetime: day, second of the day, microsecond of the second.
Seconds == {0, 1}
Micros == {0, 1}
DateTime(d, s, us) == [d |-> d, s |-> s, us |-> us]

\* The "posted" entry of a post: missing, null, "", a string that is not
\* "YYYY-MM-DD HH:MM:SS", or a well-formed timestamp (day d, second s).
PostedOther == [kind : {Absent, PyNone, "", "malformed"}, d : {0}, s : {0}]
PostedOk == [kind : {"ok"}, d : 0..MaxDay, s : Seconds]
PostedValues == PostedOther \cup PostedOk
\* The posted values a flow run is given: a malformed one and a recent one.
FlowPostedValues ==
    [kind : {"malformed"}, d : {0}, s : {0}]
    \cup [kind : {"ok"}, d : {MaxDay}, s : {0}]

\* The i-th post of a fetched list carries the text PostText(i).
PostText(i) == "post " \o ToString(i)
\* Posts lists of length at most n whose posted entries are drawn from P.
PostLists(P, n) ==
    UNION {{[i \in 1..k |-> [posted |-> p[i], text |-> PostText(i),
                             article_title |-> Absent]] : p \in [1..k -> P]}
           : k \in 0..n}

\* The JSON body of the get-profile-posts endpoint: "data" missing, null or a list.
NoPosts == [status |-> 0, data |-> "unset", items |-> <<>>]
PostsBodiesOver(P, n) ==
    {[status |-> 200, data |-> "list", items |-> xs] : xs \in PostLists(P, n)}
    \cup [status : {200}, data : {PyNone}, items : {<<>>}]
    \cup [status : {404, 500}, data : {Absent}, items : {<<>>}]
FlowPostsBodies == PostsBodiesOver(FlowPostedValues, MaxFlowPosts)

\* datetime.now() at the filter: day MaxDay + 6, any second and microsecond.
NowValues == {DateTime(MaxDay + 6, s, us) : s \in Seconds, us \in Micros}
\* The clock of a flow run: the start of that day.
FlowNow == DateTime(MaxDay + 6, 0, 0)

\* ---------------------------------------------------------- Recency Filter

\* now - timedelta(days=7)
OneWeekAgo(now) == DateTime(now.d - WindowDays, now.s, now.us)

\* datetime.strptime(item["posted"], "%Y-%m-%d %H:%M:%S"): whole seconds.
Strptime(posted) == DateTime(posted.d, posted.s, 0)

\* A strict comparison: the boundary is excluded.
DateTimeGt(a, b) ==
    \/ a.d > b.d
    \/ a.d = b.d /\ a.s > b.s
    \/ a.d = b.d /\ a.s = b.s /\ a.us > b.us

\* a >= b on naive datetimes: by date, then time of day, then microsecond.
DateTimeGe(a, b) ==
    \/ a.d > b.d
    \/ a.d = b.d /\ a.s > b.s
    \/ a.d = b.d /\ a.s = b.s /\ a.us >= b.us

\* posts_data = profil_posts.get("data") or []
PostsData(body) == IF body.data = "list" THEN body.items ELSE <<>>

\* A comprehension that reads item["posted"] without the guard.
PostedTruthy_Unguarded(item) == TRUE

\* item.get("posted") is truthy, so strptime is called on it.
PostedTruthy(item) == Truthy(item.posted.kind)

\* A filter that swallows the parse error of a posted value.
FilterRaises_Swallowed(posts) == FALSE

\* strptime raises ValueError on a truthy posted value of another format.
FilterRaises(posts) ==
    \E i \in 1..Len(posts) :
        PostedTruthy(posts[i]) /\ posts[i].posted.kind # "ok"

\* The condition of the list comprehension.
KeepPost(item, now) ==
    /\ PostedTruthy(item)
    /\ DateTimeGe(Strptime(item.posted), OneWeekAgo(now))

\* {"article_title": item.get("article_title"), "text": item.get("text")}
ProjectPost(item) ==
    [article_title |-> GetOr(item.article_title, PyNone),
     text |-> GetOr(item.text, PyNone)]

RECURSIVE RecentPosts(_, _)
\* The list comprehension over posts_data, in input order.
RecentPosts(posts, now) ==
    IF posts = <<>> THEN <<>>
    ELSE (IF KeepPost(Head(posts), now) THEN <<ProjectPost(Head(posts))>> ELSE <<>>)
         \o RecentPosts(Tail(posts), now)

\* ------------------------------------------------------ JSON extraction

\* Tokens of an LLM response: a markdown fence (three backticks), a fence
\* directly followed by the word json, a line break, a blank, prose, and whole
\* JSON texts.
Fence == "<three backticks>"
FenceJson == "<three backticks>json"
Prose == "Here is the result"
JTrue == "{\"toUpdate\": true, \"reason\": \"new title\"}"
JFalse == "{\"toUpdate\": false, \"reason\": \"no change\"}"
JNull == "{\"toUpdate\": null, \"reason\": \"unsure\"}"
JMissing == "{\"reason\": \"unsure\"}"
JStrFalse == "{\"toUpdate\": \"false\", \"reason\": \"no change\"}"
JStrEmpty == "{\"toUpdate\": \"\", \"reason\": \"unsure\"}"
JZero == "{\"toUpdate\": 0}"
JOne == "{\"toUpdate\": 1}"
JArray == "[true]"
JsonObjects == {JTrue, JFalse, JNull, JMissing, JStrFalse, JStrEmpty, JZero, JOne}
JsonTexts == JsonObjects \cup {JArray}

\* \s of the regular expressions, and the whitespace json.loads and strip() skip.
IsSpace(t) == t \in {NL, SP}
\* The text of the token starts with three backticks.
StartsFence(t) == t \in {Fence, FenceJson}

\* The matches of  <opener>\s*\n(.*?)\n<fence>  in s: the opener at i, k blanks after
\* it, then a line break, the group from g up to e - 1, then a line break at e
\* followed by a fence.
FenceMatches(s, opener) ==
    {m \in [i : 1..Len(s), k : 0..Len(s), e : 1..Len(s)] :
        /\ s[m.i] = opener
        /\ m.i + m.k + 1 <= Len(s)
        /\ \A j \in (m.i + 1)..(m.i + m.k) : IsSpace(s[j])
        /\ s[m.i + m.k + 1] = NL
        /\ m.e >= m.i + m.k + 2
        /\ m.e + 1 <= Len(s)
        /\ s[m.e] = NL
        /\ StartsFence(s[m.e + 1])}

\* re.search: the leftmost opener that matches, its \s* greedy (the longest run
\* of blanks that still lets the rest match), its group lazy (the shortest).
FirstMatch(s, opener) ==
    LET ms == FenceMatches(s, opener)
        i0 == CHOOSE i \in {m.i : m \in ms} : \A m \in ms : i <= m.i
        k0 == CHOOSE k \in {m.k : m \in {x \in ms : x.i = i0}} :
                  \A m \in ms : m.i = i0 => k >= m.k
        e0 == CHOOSE e \in {m.e : m \in {x \in ms : x.i = i0 /\ x.k = k0}} :
                  \A m \in ms : (m.i = i0 /\ m.k = k0) => e <= m.e
    IN [i |-> i0, k |-> k0, e |-> e0]

\* json_match.group(1)
Group(s, m) == SubSeq(s, m.i + m.k + 2, m.e - 1)

RECURSIVE LStrip(_)
LStrip(s) == IF s # <<>> /\ IsSpace(Head(s)) THEN LStrip(Tail(s)) ELSE s
RECURSIVE RStrip(_)
RStrip(s) ==
    IF s # <<>> /\ IsSpace(s[Len(s)]) THEN RStrip(SubSeq(s, 1, Len(s) - 1)) ELSE s
\* response.strip()
Strip(s) == RStrip(LStrip(s))

\* json.loads(json_str): one JSON text, blanks around it allowed; anything else
\* is a JSONDecodeError.
JsonLoads(s) ==
    LET t == Strip(s)
    IN IF Len(t) = 1 /\ t[1] \in JsonTexts
       THEN [ok |-> TRUE, value |-> t[1]]
       ELSE [ok |-> FALSE, value |-> "JSONDecodeError"]

\* An extraction that knows the json-tagged fence only.
JsonStr_NoPlainFence(response) ==
    IF FenceMatches(response, FenceJson) # {}
    THEN Group(response, FirstMatch(response, FenceJson))
    ELSE Strip(response)

\* The string handed to json.loads: the json-tagged block if that pattern matches,
\* else the plain block if that one matches, else the stripped response.
JsonStr(response) ==
    IF FenceMatches(response, FenceJson) # {}
    THEN Group(response, FirstMatch(response, FenceJson))
    ELSE IF FenceMatches(response, Fence) # {}
         THEN Group(response, FirstMatch(response, Fence))
         ELSE Strip(response)

\* extract_json_from_response: the parsed JSON, or ValueError with the response.
extract_json_from_response(response) ==
    LET r == JsonLoads(JsonStr(response))
    IN IF r.ok THEN r
       ELSE [ok |-> FALSE, value |-> "ValueError", response |-> response]

\* parsed_result.get("toUpdate") of a parsed JSON object: True and False are the
\* booleans, None stands for null and for a missing key alike.
ToUpdateOf(json) ==
    CASE json = JTrue -> "True"
      [] json = JFalse -> "False"
      [] json = JNull -> PyNone
      [] json = JMissing -> PyNone
      [] json = JStrFalse -> "'false'"
      [] json = JStrEmpty -> ""
      [] json = JZero -> "0"
      [] json = JOne -> "1"

\* A gate that tests the verdict against False only.
VerdictTruthy_NotFalse(v) == v # "False"

\* A gate that tests the verdict against None only.
VerdictTruthy_NotNone(v) == v # PyNone

\* if needs_update: Python truthiness of the value the Change Detector returned.
VerdictTruthy(v) == v \notin {PyNone, "False", "", "0"}

\* What the chat-completion endpoint answers the comparison prompt with.
FlowResponses ==
    {<<FenceJson, NL, JTrue, NL, Fence>>,
     <<Prose, NL, Fence, NL, JFalse, NL, Fence>>,
     <<Prose>>}
    \cup {<<j>> : j \in JsonTexts}

\* ----------------------------------------------------- description format

\* What the chat-completion endpoint answers the style prompt with.
GenTexts == {<<"- Founder of Acme">>, <<"- Founder of Acme", NL, "- Angel investor">>}

\* One entry of the history: the four fields, each followed by a line break and
\* the indentation of the f-string's next line.
ExperienceText(exp) ==
    FStr(GetOr(exp.company, "")) \o <<NL, Indent12>>
    \o FStr(GetOr(exp.title, "")) \o <<NL, Indent12>>
    \o FStr(GetOr(exp.date_range, "")) \o <<NL, Indent12>>
    \o FStr(GetOr(exp.description, "")) \o <<NL, Indent12>>

\* experiences = profile_data.get("experiences", []); history = "" unless the
\* list is non-empty, then the entries joined.
History(profile) ==
    IF profile.experiences.kind = "list" /\ profile.experiences.items # <<>>
    THEN Concat([i \in 1..Len(profile.experiences.items) |->
                    ExperienceText(profile.experiences.items[i])])
    ELSE <<>>

\* formatted_description: the triple-quoted f-string around both parts.
FormattedDescription(gen, history) ==
    <<NL, Indent8>> \o gen \o <<NL, NL, Indent8>> \o history \o <<NL, Indent8>>

\* ------------------------------------------------------------------ state

VARIABLES
    run,        \* per flow run: its position and the flow's local variables
    calls,      \* per flow run: the outbound calls it has made so far
    env,        \* which credentials the environment holds
    crm,        \* the Description field of each Airtable record
    clock,      \* what datetime.now() returns when the flow filters the posts
    xjInput,    \* responses handed to extract_json_from_response on its own
    xjOutput    \* what it returned for them, in order

vars == <<run, calls, env, crm, clock, xjInput, xjOutput>>

NoVerdict == "<unset>"
NoArgs == [record_id |-> Absent, description |-> <<>>]
\* profile, posts: GET requests sent; compare, generate: chat completions
\* requested; update_invocations: calls of update_at_record by the flow;
\* api_clients, crm_writes: Airtable clients built and record updates sent;
\* resume: runs of resume_pipedream. The failed attempts of the task in progress
\* are run[r].attempts, the seconds waited between them run[r].slept.
NoCalls == [profile |-> 0, posts |-> 0, compare |-> 0, generate |-> 0,
            update_invocations |-> 0, api_clients |-> 0, crm_writes |-> 0,
            resume |-> 0]

\* A run that has not been triggered.
IdleRun ==
    [pc |-> "idle", data |-> NoPayload, profil_url |-> "",
     profil_data |-> NoProfile, profil_posts |-> NoPosts,
     now |-> DateTime(0, 0, 0), recent_posts |-> <<>>,
     needs_update |-> NoVerdict, gen_description |-> <<>>,
     formatted_description |-> <<>>, upd |-> NoArgs,
     attempts |-> 0, slept |-> 0, failed_at |-> "none", error |-> "none"]

\* A run as the trigger starts it.
StartRun(d) == [IdleRun EXCEPT !.pc = "start", !.data = d]

OldDescription == <<"old description">>
CrmInit == [rec \in RecordIds |-> OldDescription]

\* One run of the flow, on any trigger payload, in any environment.
Init ==
    /\ \E d \in Payloads : run = [r \in RunIds |-> IF r = "r1" THEN StartRun(d) ELSE IdleRun]
    /\ calls = [r \in RunIds |-> NoCalls]
    /\ env \in Envs
    /\ crm = CrmInit
    /\ clock = FlowNow
    /\ xjInput = <<>>
    /\ xjOutput = <<>>

Bump(r, what) == [calls EXCEPT ![r][what] = @ + 1]

\* A flow that notes the exception and carries on where it was.
Raise_FlowGoesOn(r, stage, exc) ==
    [run EXCEPT ![r].failed_at = stage, ![r].error = exc]

\* The flow run ends with the exception exc raised at the given stage.
Raise(r, stage, exc) ==
    [run EXCEPT ![r].pc = "raised", ![r].failed_at = stage, ![r].error = exc]

\* The seconds Prefect waits before it runs a failed task again.
RetryDelay(stage) ==
    CASE stage = "profile" -> ProfileRetryDelay
      [] stage = "posts" -> PostsRetryDelay
      [] stage = "compare" -> CompareRetryDelay
      [] stage = "update" -> UpdateRetryDelay
      [] stage = "resume" -> ResumeRetryDelay

\* A retry budget one short: the task run again only while attempts + 1 < retries.
TaskFailed_NoLastRetry(r, stage, retries, exc) ==
    IF run[r].attempts + 1 < retries
    THEN [run EXCEPT ![r].attempts = @ + 1, ![r].slept = @ + RetryDelay(stage)]
    ELSE [Raise(r, stage, exc) EXCEPT ![r].attempts = @ + 1]

\* A task attempt raised exc: Prefect waits and runs the task again while the
\* number of attempts made does not exceed its retries, then lets the exception
\* reach the flow.
TaskFailed(r, stage, retries, exc) ==
    IF run[r].attempts + 1 <= retries
    THEN [run EXCEPT ![r].attempts = @ + 1, ![r].slept = @ + RetryDelay(stage)]
    ELSE [Raise(r, stage, exc) EXCEPT ![r].attempts = @ + 1]

\* ------------------------------------------------------- contact_enrichment

\* A gate that tests the entry against "" and forgets the missing key.
UrlMissing_OnlyEmpty(d) == d.LinkedIn = ""

\* if not linkedin_url
UrlMissing(d) == ~Truthy(LinkedInOf(d))

\* The flow's first lines: read the LinkedIn URL of the payload and return when
\* there is none; fields.get on "fields": null raises AttributeError.
Intake(r) ==
    /\ run[r].pc = "start"
    /\ run' = IF FieldsOf(run[r].data) = PyNone
              THEN Raise(r, "intake", "AttributeError")
              ELSE IF UrlMissing(run[r].data)
                   THEN [run EXCEPT ![r].pc = "noop_url"]
                   ELSE [run EXCEPT ![r].pc = "profile", ![r].attempts = 0, ![r].slept = 0,
                                    ![r].profil_url = Quote(LinkedInOf(run[r].data))]
    /\ UNCHANGED <<calls, env, crm, clock, xjInput, xjOutput>>

\* get_linkedin_profil: the GET answers with a JSON body, whatever its status,
\* and the body is returned as it is.
FetchProfileOk(r) ==
    /\ run[r].pc = "profile"
    /\ \E body \in ProfileBodies :
           run' = [run EXCEPT ![r].profil_data = body, ![r].pc = "posts",
                              ![r].attempts = 0, ![r].slept = 0]
    /\ calls' = Bump(r, "profile")
    /\ UNCHANGED <<env, crm, clock, xjInput, xjOutput>>

\* A flow that shrugs off a failed profile fetch and goes on to the posts.
FetchProfileFail_GoesOn(r) ==
    /\ run[r].pc = "profile"
    /\ run' = [run EXCEPT ![r].pc = "posts", ![r].attempts = 0, ![r].slept = 0]
    /\ calls' = Bump(r, "profile")
    /\ UNCHANGED <<env, crm, clock, xjInput, xjOutput>>

\* get_linkedin_profil: the GET fails, or its body is not JSON; the exception is
\* re-raised and the task's retries decide.
FetchProfileFail(r) ==
    /\ run[r].pc = "profile"
    /\ \E exc \in {"ConnectionError", "JSONDecodeError"} :
           run' = TaskFailed(r, "profile", ProfileRetries, exc)
    /\ calls' = Bump(r, "profile")
    /\ UNCHANGED <<env, crm, clock, xjInput, xjOutput>>

\* get_linkedin_posts, as get_linkedin_profil.
FetchPostsOk(r) ==
    /\ run[r].pc = "posts"
    /\ \E body \in FlowPostsBodies :
           run' = [run EXCEPT ![r].profil_posts = body, ![r].pc = "filter",
                              ![r].attempts = 0, ![r].slept = 0]
    /\ calls' = Bump(r, "posts")
    /\ UNCHANGED <<env, crm, clock, xjInput, xjOutput>>

FetchPostsFail(r) ==
    /\ run[r].pc = "posts"
    /\ \E exc \in {"ConnectionError", "JSONDecodeError"} :
           run' = TaskFailed(r, "posts", PostsRetries, exc)
    /\ calls' = Bump(r, "posts")
    /\ UNCHANGED <<env, crm, clock, xjInput, xjOutput>>

\* The weekly-posts block of the flow: now is read, the posts of the last seven
\* days are kept; strptime's ValueError is not caught.
FilterPosts(r) ==
    /\ run[r].pc = "filter"
    /\ LET posts == PostsData(run[r].profil_posts)
       IN run' = IF FilterRaises(posts)
                 THEN [Raise(r, "filter", "ValueError") EXCEPT ![r].now = clock]
                 ELSE [run EXCEPT ![r].now = clock, ![r].pc = "prompt",
                                  ![r].recent_posts = RecentPosts(posts, clock)]
    /\ UNCHANGED <<calls, env, crm, clock, xjInput, xjOutput>>

\* A prompt builder that takes "data": null as an empty profile.
BuildPrompt_NullAsEmpty(r) ==
    /\ run[r].pc = "prompt"
    /\ run' = [run EXCEPT ![r].pc = "compare", ![r].attempts = 0, ![r].slept = 0]
    /\ UNCHANGED <<calls, env, crm, clock, xjInput, xjOutput>>

\* prompt_profil_comparison: profil_data.get("data", {}) is None for "data": null,
\* and None.get raises AttributeError.
BuildPrompt(r) ==
    /\ run[r].pc = "prompt"
    /\ run' = IF run[r].profil_data.data = PyNone
              THEN Raise(r, "prompt", "AttributeError")
              ELSE [run EXCEPT ![r].pc = "compare", ![r].attempts = 0, ![r].slept = 0]
    /\ UNCHANGED <<calls, env, crm, clock, xjInput, xjOutput>>

\* A task without a retry budget: the failed attempt is not counted and the
\* task is run again.
CompareNoKey_RetriesForever(r) ==
    /\ run[r].pc = "compare"
    /\ ~env.openrouter
    /\ run' = [run EXCEPT ![r].attempts = 0]
    /\ UNCHANGED <<calls, env, crm, clock, xjInput, xjOutput>>

\* does_profile_need_update, an attempt in which generate_text finds no
\* OPENROUTER_API_KEY: ValueError before any call.
CompareNoKey(r) ==
    /\ run[r].pc = "compare"
    /\ ~env.openrouter
    /\ run' = TaskFailed(r, "compare", CompareRetries, "ValueError")
    /\ UNCHANGED <<calls, env, crm, clock, xjInput, xjOutput>>

\* does_profile_need_update, an attempt in which the chat completion fails.
CompareLlmError(r) ==
    /\ run[r].pc = "compare"
    /\ env.openrouter
    /\ run' = TaskFailed(r, "compare", CompareRetries, "APIError")
    /\ calls' = Bump(r, "compare")
    /\ UNCHANGED <<env, crm, clock, xjInput, xjOutput>>

\* The value the task returns for a parsed response, or the exception it raises.
CompareResult(response) ==
    LET parsed == extract_json_from_response(response)
    IN IF ~parsed.ok THEN [ok |-> FALSE, value |-> "ValueError"]
       ELSE IF parsed.value \notin JsonObjects
            THEN [ok |-> FALSE, value |-> "AttributeError"]
            ELSE [ok |-> TRUE, value |-> ToUpdateOf(parsed.value)]

\* A retry that parses an answer again without asking the model again.
CompareAnswer_ReparseOnRetry(r) ==
    /\ run[r].pc = "compare"
    /\ env.openrouter
    /\ \E response \in FlowResponses :
           LET res == CompareResult(response)
           IN run' = IF res.ok
                     THEN [run EXCEPT ![r].needs_update = res.value, ![r].pc = "gate",
                                      ![r].attempts = 0, ![r].slept = 0]
                     ELSE TaskFailed(r, "compare", CompareRetries, res.value)
    /\ calls' = IF run[r].attempts = 0 THEN Bump(r, "compare") ELSE calls
    /\ UNCHANGED <<env, crm, clock, xjInput, xjOutput>>

\* does_profile_need_update, an attempt in which the model answers: the answer
\* is parsed and its toUpdate entry returned.
CompareAnswer(r) ==
    /\ run[r].pc = "compare"
    /\ env.openrouter
    /\ \E response \in FlowResponses :
           LET res == CompareResult(response)
           IN run' = IF res.ok
                     THEN [run EXCEPT ![r].needs_update = res.value, ![r].pc = "gate",
                                      ![r].attempts = 0, ![r].slept = 0]
                     ELSE TaskFailed(r, "compare", CompareRetries, res.value)
    /\ calls' = Bump(r, "compare")
    /\ UNCHANGED <<env, crm, clock, xjInput, xjOutput>>

\* A flow that tests the record id before it generates: with a true verdict
\* and no id it ends without calling the generator.
VerdictGate_IdFirst(r) ==
    /\ run[r].pc = "gate"
    /\ run' = IF VerdictTruthy(run[r].needs_update)
              THEN IF Truthy(RecordIdOf(run[r].data))
                   THEN [run EXCEPT ![r].pc = "generate"]
                   ELSE [run EXCEPT ![r].pc = "completed"]
              ELSE [run EXCEPT ![r].pc = "noop_verdict"]
    /\ UNCHANGED <<calls, env, crm, clock, xjInput, xjOutput>>

\* if needs_update: ... else the flow returns.
VerdictGate(r) ==
    /\ run[r].pc = "gate"
    /\ run' = IF VerdictTruthy(run[r].needs_update)
              THEN [run EXCEPT ![r].pc = "generate"]
              ELSE [run EXCEPT ![r].pc = "noop_verdict"]
    /\ UNCHANGED <<calls, env, crm, clock, xjInput, xjOutput>>

\* The user prompt of the generator is built first:
\* profil_data.get('data').get('about') raises AttributeError when the body has
\* no data object. Then generate_text checks the credential.
GenerateRaises(r) ==
    /\ run[r].pc = "generate"
    /\ run[r].profil_data.data # "obj" \/ ~env.openrouter
    /\ run' = IF run[r].profil_data.data # "obj"
              THEN Raise(r, "generate", "AttributeError")
              ELSE Raise(r, "generate", "ValueError")
    /\ UNCHANGED <<calls, env, crm, clock, xjInput, xjOutput>>

\* A generator call that is made again after a failed chat completion.
GenerateLlmError_Retried(r) ==
    /\ run[r].pc = "generate"
    /\ run[r].profil_data.data = "obj"
    /\ env.openrouter
    /\ calls[r].generate < 3
    /\ run' = [run EXCEPT ![r].attempts = @ + 1]
    /\ calls' = Bump(r, "generate")
    /\ UNCHANGED <<env, crm, clock, xjInput, xjOutput>>

\* generate_text called by the flow itself: the chat completion fails and
\* nothing retries it.
GenerateLlmError(r) ==
    /\ run[r].pc = "generate"
    /\ run[r].profil_data.data = "obj"
    /\ env.openrouter
    /\ run' = Raise(r, "generate", "APIError")
    /\ calls' = Bump(r, "generate")
    /\ UNCHANGED <<env, crm, clock, xjInput, xjOutput>>

\* generate_text called by the flow itself: the model answers.
GenerateAnswer(r) ==
    /\ run[r].pc = "generate"
    /\ run[r].profil_data.data = "obj"
    /\ env.openrouter
    /\ \E g \in GenTexts :
           run' = [run EXCEPT ![r].gen_description = g, ![r].pc = "format"]
    /\ calls' = Bump(r, "generate")
    /\ UNCHANGED <<env, crm, clock, xjInput, xjOutput>>

\* A call that passes the generated text without the history.
UpdateArgs_Unformatted(r, text) ==
    [record_id |-> RecordIdOf(run[r].data), description |-> run[r].gen_description]

\* update_at_record(record_id, formatted_description) as the flow calls it.
UpdateArgs(r, text) == [record_id |-> RecordIdOf(run[r].data), description |-> text]

\* A flow without the record id gate: the task is called whatever the id.
FormatAndDispatch_NoIdGate(r) ==
    /\ run[r].pc = "format"
    /\ LET text == FormattedDescription(run[r].gen_description,
                                        History(run[r].profil_data))
       IN run' = [run EXCEPT ![r].formatted_description = text,
                             ![r].upd = UpdateArgs(r, text),
                             ![r].pc = "update", ![r].attempts = 0, ![r].slept = 0]
    /\ calls' = Bump(r, "update_invocations")
    /\ UNCHANGED <<env, crm, clock, xjInput, xjOutput>>

\* The formatting block and the record id gate: the task is called when the
\* payload has a truthy id, else the flow logs and ends.
FormatAndDispatch(r) ==
    /\ run[r].pc = "format"
    /\ LET text == FormattedDescription(run[r].gen_description,
                                        History(run[r].profil_data))
       IN IF Truthy(RecordIdOf(run[r].data))
          THEN /\ run' = [run EXCEPT ![r].formatted_description = text,
                                     ![r].upd = UpdateArgs(r, text),
                                     ![r].pc = "update", ![r].attempts = 0, ![r].slept = 0]
               /\ calls' = Bump(r, "update_invocations")
          ELSE /\ run' = [run EXCEPT ![r].formatted_description = text,
                                     ![r].pc = "completed"]
               /\ UNCHANGED calls
    /\ UNCHANGED <<env, crm, clock, xjInput, xjOutput>>

\* ---------------------------------------------------------- update_at_record

\* A guard that tests the record id against None only.
NoRecordId_OnlyNone(record_id) == record_id = PyNone

\* if not record_id
NoRecordId(record_id) == ~Truthy(record_id)

\* An updater that builds the Airtable client first and looks at the credential
\* afterwards.
UpdateAttempt_ClientFirst(r) ==
    /\ run[r].pc = "update"
    /\ \/ /\ NoRecordId(run[r].upd.record_id)
          /\ run' = [run EXCEPT ![r].pc = "completed"]
          /\ UNCHANGED <<calls, crm>>
       \/ /\ ~NoRecordId(run[r].upd.record_id)
          /\ ~env.airtable
          /\ calls' = [calls EXCEPT ![r].api_clients = @ + 1]
          /\ run' = TaskFailed(r, "update", UpdateRetries, "ValueError")
          /\ UNCHANGED crm
       \/ /\ ~NoRecordId(run[r].upd.record_id)
          /\ env.airtable
          /\ calls' = [calls EXCEPT ![r].api_clients = @ + 1, ![r].crm_writes = @ + 1]
          /\ crm' = [crm EXCEPT ![run[r].upd.record_id] = run[r].upd.description]
          /\ run' = [run EXCEPT ![r].pc = "completed"]
    /\ UNCHANGED <<env, clock, xjInput, xjOutput>>

\* An updater that hands the written text on to resume_pipedream.
UpdateAttempt_ThenResume(r) ==
    /\ run[r].pc = "update"
    /\ env.airtable
    /\ run' = [run EXCEPT ![r].pc = "resume", ![r].attempts = 0, ![r].slept = 0]
    /\ crm' = [crm EXCEPT ![run[r].upd.record_id] = run[r].upd.description]
    /\ calls' = [calls EXCEPT ![r].api_clients = @ + 1, ![r].crm_writes = @ + 1]
    /\ UNCHANGED <<env, clock, xjInput, xjOutput>>

\* An updater with an idempotency check: it leaves a record alone that some run
\* has already rewritten.
UpdateAttempt_OncePerRecord(r) ==
    /\ run[r].pc = "update"
    /\ run' = [run EXCEPT ![r].pc = "completed"]
    /\ crm' = IF crm[run[r].upd.record_id] = OldDescription
              THEN [crm EXCEPT ![run[r].upd.record_id] = run[r].upd.description]
              ELSE crm
    /\ calls' = [calls EXCEPT ![r].api_clients = @ + 1, ![r].crm_writes = @ + 1]
    /\ UNCHANGED <<env, clock, xjInput, xjOutput>>

\* One attempt of the task: it returns at once without a record id, raises
\* ValueError without AIRTABLE_API_KEY, and else builds the client and updates
\* the record's Description; an exception of the update is re-raised.
UpdateAttempt(r) ==
    /\ run[r].pc = "update"
    /\ LET a == run[r].upd
       IN IF NoRecordId(a.record_id)
          THEN /\ run' = [run EXCEPT ![r].pc = "completed"]
               /\ UNCHANGED <<calls, crm>>
          ELSE IF ~env.airtable
               THEN /\ run' = TaskFailed(r, "update", UpdateRetries, "ValueError")
                    /\ UNCHANGED <<calls, crm>>
               ELSE \E written \in BOOLEAN :
                        /\ calls' = [calls EXCEPT ![r].api_clients = @ + 1,
                                                  ![r].crm_writes = @ + 1]
                        /\ IF written
                           THEN /\ crm' = [crm EXCEPT ![a.record_id] = a.description]
                                /\ run' = [run EXCEPT ![r].pc = "completed"]
                           ELSE /\ run' = TaskFailed(r, "update", UpdateRetries,
                                                     "HTTPError")
                                /\ UNCHANGED crm
    /\ UNCHANGED <<env, clock, xjInput, xjOutput>>

\* ----------------------------------------------------------- resume_pipedream

\* One attempt of the task, which no line of contact_enrichment calls: it returns
\* at once without a record id, and else POSTs the text to the resume URL; a
\* failed POST or an error status is re-raised.
ResumePipedream(r) ==
    /\ run[r].pc = "resume"
    /\ IF ~Truthy(run[r].upd.record_id)
       THEN /\ run' = [run EXCEPT ![r].pc = "completed"]
            /\ UNCHANGED calls
       ELSE /\ calls' = Bump(r, "resume")
            /\ \E posted \in BOOLEAN :
                   run' = IF posted
                          THEN [run EXCEPT ![r].pc = "completed"]
                          ELSE TaskFailed(r, "resume", ResumeRetries, "HTTPError")
    /\ UNCHANGED <<env, crm, clock, xjInput, xjOutput>>

\* ------------------------------------------- extract_json_from_response alone

\* The next response of xjInput is handed to extract_json_from_response.
ExtractCall ==
    /\ Len(xjOutput) < Len(xjInput)
    /\ xjOutput' = Append(xjOutput, extract_json_from_response(xjInput[Len(xjOutput) + 1]))
    /\ UNCHANGED <<run, calls, env, crm, clock, xjInput>>

\* --------------------------------------------------------- specifications

Next ==
    \E r \in RunIds :
        \/ Intake(r)
        \/ FetchProfileOk(r)
        \/ FetchProfileFail(r)
        \/ FetchPostsOk(r)
        \/ FetchPostsFail(r)
        \/ FilterPosts(r)
        \/ BuildPrompt(r)
        \/ CompareNoKey(r)
        \/ CompareLlmError(r)
        \/ CompareAnswer(r)
        \/ VerdictGate(r)
        \/ GenerateRaises(r)
        \/ GenerateLlmError(r)
        \/ GenerateAnswer(r)
        \/ FormatAndDispatch(r)
        \/ UpdateAttempt(r)

Spec == Init /\ [][Next]_vars

\* A payload with a LinkedIn URL and a record id, as a run past the gate holds.
UrlPayload == [present |-> TRUE, fields |-> "map", LinkedIn |-> Url, id |-> "rec1"]
PlainProfile == [status |-> 200, data |-> "obj", about |-> "Seasoned operator",
                 experiences |-> NoExperiences]

\* The Recency Filter on its own: a run that has fetched the profile and any
\* posts body, about to filter.
InitFilter ==
    /\ \E body \in PostsBodiesOver(PostedValues, MaxPosts) :
           run = [r \in RunIds |->
                     IF r = "r1"
                     THEN [StartRun(UrlPayload) EXCEPT
                               !.pc = "filter", !.profil_url = Quote(Url),
                               !.profil_data = PlainProfile, !.profil_posts = body]
                     ELSE IdleRun]
    /\ calls = [r \in RunIds |->
                   IF r = "r1" THEN [NoCalls EXCEPT !.profile = 1, !.posts = 1]
                   ELSE NoCalls]
    /\ env = [openrouter |-> TRUE, airtable |-> TRUE]
    /\ crm = CrmInit
    /\ clock \in NowValues
    /\ xjInput = <<>>
    /\ xjOutput = <<>>

NextFilter == \E r \in RunIds : FilterPosts(r)

SpecFilter == InitFilter /\ [][NextFilter]_vars

\* update_at_record on its own: called with any record id (None and "" included)
\* and any description, in any environment.
Descriptions == {<<>>, <<"- Founder of Acme">>, <<NL, Indent8, "- Founder of Acme", NL>>}
InitUpdater ==
    /\ \E a \in [record_id : {PyNone, ""} \cup RecordIds, description : Descriptions] :
           run = [r \in RunIds |->
                     IF r = "r1" THEN [IdleRun EXCEPT !.pc = "update", !.upd = a]
                     ELSE IdleRun]
    /\ calls = [r \in RunIds |->
                   IF r = "r1" THEN [NoCalls EXCEPT !.update_invocations = 1]
                   ELSE NoCalls]
    /\ env \in Envs
    /\ crm = CrmInit
    /\ clock = FlowNow
    /\ xjInput = <<>>
    /\ xjOutput = <<>>

NextUpdater == \E r \in RunIds : UpdateAttempt(r)

SpecUpdater == InitUpdater /\ [][NextUpdater]_vars

\* extract_json_from_response on its own, on any response of at most MaxResp
\* tokens.
ResponseTokens == {Fence, FenceJson, NL, JTrue, Prose}
Responses(n) == SeqsUpTo(ResponseTokens, n)
ContentTokens == {NL, SP, JTrue, JFalse, Prose}
Contents(n) == SeqsUpTo(ContentTokens, n)
WrapJson(c) == <<FenceJson, NL>> \o c \o <<NL, Fence>>
WrapPlain(c) == <<Fence, NL>> \o c \o <<NL, Fence>>
Wrappings(c) == <<WrapJson(c), WrapPlain(c), c>>

InitExtract ==
    /\ run = [r \in RunIds |-> IdleRun]
    /\ calls = [r \in RunIds |-> NoCalls]
    /\ env = [openrouter |-> TRUE, airtable |-> TRUE]
    /\ crm = CrmInit
    /\ clock = FlowNow
    /\ xjInput \in {<<resp>> : resp \in Responses(MaxResp)}
    /\ xjOutput = <<>>

SpecExtract == InitExtract /\ [][ExtractCall]_vars

\* extract_json_from_response on one content given three ways: in a json-tagged
\* fence, in a plain fence and bare.
InitWrap ==
    /\ run = [r \in RunIds |-> IdleRun]
    /\ calls = [r \in RunIds |-> NoCalls]
    /\ env = [openrouter |-> TRUE, airtable |-> TRUE]
    /\ crm = CrmInit
    /\ clock = FlowNow
    /\ xjInput \in {Wrappings(c) : c \in Contents(MaxContent)}
    /\ xjOutput = <<>>

SpecWrap == InitWrap /\ [][ExtractCall]_vars

\* Two runs triggered for one record, each holding a true verdict of the Change
\* Detector, about to pass the verdict gate; they take their steps in any order.
InitRace ==
    /\ run = [r \in RunIds |->
                 [StartRun(UrlPayload) EXCEPT
                     !.pc = "gate", !.profil_url = Quote(Url),
                     !.profil_data = PlainProfile,
                     !.profil_posts = [status |-> 200, data |-> "list", items |-> <<>>],
                     !.now = FlowNow, !.needs_update = "True"]]
    /\ calls = [r \in RunIds |-> [NoCalls EXCEPT !.profile = 1, !.posts = 1, !.compare = 1]]
    /\ env \in [openrouter : {TRUE}, airtable : BOOLEAN]
    /\ crm = CrmInit
    /\ clock = FlowNow
    /\ xjInput = <<>>
    /\ xjOutput = <<>>

NextRace ==
    \E r \in RunIds :
        \/ VerdictGate(r)
        \/ GenerateLlmError(r)
        \/ GenerateAnswer(r)
        \/ FormatAndDispatch(r)
        \/ UpdateAttempt(r)

SpecRace == InitRace /\ [][NextRace]_vars

\* resume_pipedream on its own: called with any record id (None and "" included)
\* and any text.
InitNotifier ==
    /\ \E a \in [record_id : {PyNone, ""} \cup RecordIds, description : Descriptions] :
           run = [r \in RunIds |-> [IdleRun EXCEPT !.pc = "resume", !.upd = a]]
    /\ calls = [r \in RunIds |-> NoCalls]
    /\ env \in Envs
    /\ crm = CrmInit
    /\ clock = FlowNow
    /\ xjInput = <<>>
    /\ xjOutput = <<>>

NextNotifier == \E r \in RunIds : ResumePipedream(r)

SpecNotifier == InitNotifier /\ [][NextNotifier]_vars

\* A flow run whose every outbound call eventually returns or raises, and which
\* the engine keeps running: the run takes its next step whenever it has one.
SpecLive == Spec /\ WF_vars(Next)

\* ------------------------------------------------------------------ claims

Terminal == {"noop_url", "noop_verdict", "completed", "raised"}
Triggered(r) == run[r].pc # "idle"

\* The payload's fields map has no LinkedIn entry or has it as "": the payload
\* absent, without a fields map, or with a map without a usable entry.
LacksLinkedIn(d) == d.fields \in {Absent, "map"} /\ d.LinkedIn \in {Absent, ""}

\* C1: a run whose payload lacks a LinkedIn entry (or has it empty) fetches no
\* profile and no posts, makes no LLM call and no CRM write, and never raises:
\* it is at its start or has returned at the gate.
C1_NoUrlNoCalls ==
    \A r \in RunIds :
        (Triggered(r) /\ LacksLinkedIn(run[r].data)) =>
            /\ calls[r] = NoCalls
            /\ crm = CrmInit
            /\ run[r].pc \in {"start", "noop_url"}

C1_Witness ==
    \E r \in RunIds :
        /\ run[r].pc = "noop_url"
        /\ run[r].data.fields = "map"
        /\ run[r].data.LinkedIn = ""

\* C2: once the Change Detector has returned False, the run makes no Description
\* Generator call and no Record Updater call, and ends as a no-op: it never raises.
C2_FalseVerdictNoop ==
    \A r \in RunIds :
        run[r].needs_update = "False" =>
            /\ calls[r].generate = 0
            /\ calls[r].update_invocations = 0
            /\ calls[r].api_clients = 0
            /\ calls[r].crm_writes = 0
            /\ crm = CrmInit
            /\ run[r].pc \in {"gate", "noop_verdict"}

C2_Witness ==
    \E r \in RunIds : run[r].pc = "noop_verdict" /\ run[r].needs_update = "False"

\* C3 (as claimed): the Description Generator's LLM call is made only when the
\* verdict's toUpdate is the boolean true.
C3_GeneratorOnlyOnTrue ==
    \A r \in RunIds : calls[r].generate > 0 => run[r].needs_update = "True"

\* The run got past the Description Generator.
GeneratorReturned(r) == ~(run[r].pc = "raised" /\ run[r].failed_at = "generate")

\* The Record Updater was called once, with the trigger's id and the final text.
UpdaterCalledOnce(r) ==
    /\ calls[r].update_invocations = 1
    /\ run[r].upd.record_id = run[r].data.id
    /\ run[r].upd.description = run[r].formatted_description
    /\ run[r].formatted_description =
           FormattedDescription(run[r].gen_description, History(run[r].profil_data))

C4_Preconditions(r) ==
    /\ Truthy(run[r].data.LinkedIn)
    /\ run[r].needs_update = "True"
    /\ Truthy(run[r].data.id)

C5_FormatExact ==
    \A r \in RunIds :
        calls[r].update_invocations > 0 /\ run[r].gen_description # <<>> =>
            run[r].upd.description =
                run[r].gen_description \o <<NL, NL>> \o History(run[r].profil_data)

\* A datetime as a count of microseconds.
Ticks(t) == (t.d * Cardinality(Seconds) + t.s) * Cardinality(Micros) + t.us
TicksPerDay == Cardinality(Seconds) * Cardinality(Micros)

\* The texts of the posts kept by the filter.
KeptTexts(r) == {run[r].recent_posts[j].text : j \in 1..Len(run[r].recent_posts)}

\* The post's timestamp is exactly n days before now.
DaysBefore(item, now, n) ==
    /\ item.posted.kind = "ok"
    /\ item.posted.d = now.d - n
    /\ item.posted.s = now.s
    /\ now.us = 0

\* C6: after the filter, the posts kept are exactly those whose timestamp is at
\* most seven days before now, in input order; a post dated exactly 6 or exactly
\* 7 days before now is kept and one dated exactly 8 days before now is dropped.
C6_SevenDayWindow ==
    \A r \in RunIds :
        run[r].pc = "prompt" =>
            LET posts == PostsData(run[r].profil_posts)
                now == run[r].now
                InWindow(item) ==
                    /\ item.posted.kind = "ok"
                    /\ Ticks(DateTime(item.posted.d, item.posted.s, 0))
                           >= Ticks(now) - WindowDays * TicksPerDay
                kept == SelectSeq(posts, InWindow)
            IN /\ run[r].recent_posts =
                      [j \in 1..Len(kept) |->
                          [article_title |-> PyNone, text |-> kept[j].text]]
               /\ \A i \in 1..Len(posts) :
                      /\ DaysBefore(posts[i], now, 6) => posts[i].text \in KeptTexts(r)
                      /\ DaysBefore(posts[i], now, 7) => posts[i].text \in KeptTexts(r)
                      /\ DaysBefore(posts[i], now, 8) => posts[i].text \notin KeptTexts(r)

C6_Witness ==
    \E r \in RunIds :
        LET posts == PostsData(run[r].profil_posts)
        IN /\ run[r].pc = "prompt"
           /\ Len(posts) = 3
           /\ DaysBefore(posts[1], run[r].now, 6)
           /\ DaysBefore(posts[2], run[r].now, 7)
           /\ DaysBefore(posts[3], run[r].now, 8)
           /\ KeptTexts(r) = {posts[1].text, posts[2].text}

\* No post kept by the filter is one without a posted key.
DropsPostsWithoutPosted(r) ==
    \A i \in 1..Len(PostsData(run[r].profil_posts)) :
        PostsData(run[r].profil_posts)[i].posted.kind = Absent
            => PostsData(run[r].profil_posts)[i].text \notin KeptTexts(r)

\* Every posted value that is present and non-empty has the expected format.
PostedWellFormed(posts) ==
    \A i \in 1..Len(posts) : posts[i].posted.kind # "malformed"

\* C7 (as claimed): whatever the posts body, filtering never raises, and no post
\* without a posted key is kept.
C7_FilterNeverRaises ==
    \A r \in RunIds :
        /\ ~(run[r].pc = "raised" /\ run[r].failed_at = "filter")
        /\ run[r].pc = "prompt" => DropsPostsWithoutPosted(r)

\* C7 (amended): when every posted value that is present and non-empty has the
\* format YYYY-MM-DD HH:MM:SS, filtering does not raise (a null or missing data
\* list gives no posts), and no post without a posted key is kept.
C7_FilterTotalOnWellFormed ==
    \A r \in RunIds :
        /\ (run[r].pc \notin {"idle", "filter"}
            /\ PostedWellFormed(PostsData(run[r].profil_posts)))
               => run[r].pc = "prompt"
        /\ run[r].pc = "prompt" =>
               /\ DropsPostsWithoutPosted(r)
               /\ run[r].profil_posts.data # "list" => run[r].recent_posts = <<>>

C7_Witness ==
    \E r \in RunIds :
        /\ run[r].pc = "prompt"
        /\ \E i \in 1..Len(PostsData(run[r].profil_posts)) :
               PostsData(run[r].profil_posts)[i].posted.kind = Absent
        /\ run[r].recent_posts # <<>>

\* The parse of the i-th response: the object, or the failure.
Outcome(i) == [ok |-> xjOutput[i].ok, value |-> xjOutput[i].value]

\* C8: one content given in a json-tagged fence, in a plain fence and bare
\* parses to the same object all three ways (or fails all three ways).
C8_SameObjectAllWrappings ==
    \A i \in 1..Len(xjOutput) : \A j \in 1..Len(xjOutput) : Outcome(i) = Outcome(j)

C8_Witness ==
    /\ Len(xjOutput) = 3
    /\ xjInput[3] = <<JTrue>>
    /\ \A i \in 1..3 : Outcome(i) = [ok |-> TRUE, value |-> JTrue]

\* The three strategies, each on its own: the first json-tagged block, the first
\* plain block, the whole response.
StrategyJsonFence(response) ==
    IF FenceMatches(response, FenceJson) # {}
    THEN JsonLoads(Group(response, FirstMatch(response, FenceJson)))
    ELSE [ok |-> FALSE, value |-> "no match"]
StrategyPlainFence(response) ==
    IF FenceMatches(response, Fence) # {}
    THEN JsonLoads(Group(response, FirstMatch(response, Fence)))
    ELSE [ok |-> FALSE, value |-> "no match"]
StrategyWhole(response) == JsonLoads(Strip(response))

\* The first of the three strategies that yields parseable JSON wins.
FirstSuccess(response) ==
    IF StrategyJsonFence(response).ok THEN StrategyJsonFence(response)
    ELSE IF StrategyPlainFence(response).ok THEN StrategyPlainFence(response)
    ELSE IF StrategyWhole(response).ok THEN StrategyWhole(response)
    ELSE [ok |-> FALSE, value |-> "ValueError"]

\* C9 (as claimed): the function returns the first strategy's success, and
\* raises only when none of the three yields parseable JSON.
C9_FirstSuccessWins ==
    \A i \in 1..Len(xjOutput) : Outcome(i) = FirstSuccess(xjInput[i])

\* C10: update_at_record called with None or "" as record id returns without
\* building a client, sending an update, changing a record, failing an attempt
\* or raising, whether or not AIRTABLE_API_KEY is set.
C10_NoRecordIdNoop ==
    \A r \in RunIds :
        (Triggered(r) /\ run[r].upd.record_id \in {PyNone, ""}) =>
            /\ calls[r].api_clients = 0
            /\ calls[r].crm_writes = 0
            /\ crm = CrmInit
            /\ run[r].attempts = 0
            /\ run[r].pc \in {"update", "completed"}

C10_Witness ==
    \E r \in RunIds :
        /\ run[r].pc = "completed"
        /\ run[r].upd.record_id = ""
        /\ ~env.airtable

\* The run got past the stage: it is neither before it, nor in it, nor did it
\* end at or before it.
BeforeProfile(r) ==
    \/ run[r].pc \in {"idle", "start", "noop_url", "profile"}
    \/ run[r].pc = "raised" /\ run[r].failed_at \in {"intake", "profile"}
BeforePosts(r) ==
    \/ BeforeProfile(r)
    \/ run[r].pc = "posts"
    \/ run[r].pc = "raised" /\ run[r].failed_at = "posts"
RaisedAt(r, stage) == run[r].pc = "raised" /\ run[r].failed_at = stage

\* C11 (as claimed): a fetcher sends at most 2 requests, and its error reaches
\* the flow after exactly the 2nd.
C11_FetcherTwoAttempts ==
    \A r \in RunIds :
        /\ calls[r].profile <= 2
        /\ calls[r].posts <= 2
        /\ RaisedAt(r, "profile") => calls[r].profile = 2
        /\ RaisedAt(r, "posts") => calls[r].posts = 2

\* C11 (amended): a fetcher makes at most 3 attempts (the first and 2 retries),
\* 300 seconds apart; when every attempt fails the error reaches the flow after
\* exactly the 3rd, and when an attempt within that budget succeeds the flow
\* goes on with the body that attempt returned.
C11_FetcherThreeAttempts ==
    \A r \in RunIds :
        /\ calls[r].profile <= 3
        /\ calls[r].posts <= 3
        /\ run[r].pc = "profile" =>
               /\ run[r].attempts = calls[r].profile
               /\ run[r].attempts <= 2
               /\ run[r].slept = 300 * run[r].attempts
        /\ run[r].pc = "posts" =>
               /\ run[r].attempts = calls[r].posts
               /\ run[r].attempts <= 2
               /\ run[r].slept = 300 * run[r].attempts
        /\ RaisedAt(r, "profile") =>
               /\ calls[r].profile = 3
               /\ run[r].slept = 600
               /\ run[r].error \in {"ConnectionError", "JSONDecodeError"}
               /\ run[r].profil_data = NoProfile
        /\ RaisedAt(r, "posts") =>
               /\ calls[r].posts = 3
               /\ run[r].slept = 600
               /\ run[r].error \in {"ConnectionError", "JSONDecodeError"}
               /\ run[r].profil_posts = NoPosts
        /\ ~BeforeProfile(r) =>
               /\ calls[r].profile \in 1..3
               /\ run[r].profil_data \in ProfileBodies
        /\ ~BeforePosts(r) =>
               /\ calls[r].posts \in 1..3
               /\ run[r].profil_posts \in FlowPostsBodies

\* The profile fetch succeeded at its 2nd attempt, the flow went on, and the
\* posts fetch failed 3 times.
C11_Witness ==
    \E r \in RunIds :
        /\ RaisedAt(r, "posts")
        /\ run[r].error = "ConnectionError"
        /\ calls[r].profile = 2
        /\ run[r].profil_data \in ProfileBodies
        /\ calls[r].posts = 3

\* C12 (as claimed): a 4xx or 5xx answer is a failed attempt, so no body that
\* came with such a status is ever held by the flow as profile or posts data.
C12_ErrorStatusNotReturned ==
    \A r \in RunIds :
        /\ run[r].profil_data.status \notin {404, 500}
        /\ run[r].profil_posts.status \notin {404, 500}

\* The failed attempts a stage may show when a missing credential is not
\* retried: none while the stage runs, one once it has raised.
SingleAttempt(r, stage) ==
    /\ run[r].pc = stage => run[r].attempts = 0
    /\ RaisedAt(r, stage) => run[r].attempts = 1 /\ run[r].error = "ValueError"

\* C13 (as claimed): without OPENROUTER_API_KEY the Change Detector makes a
\* single attempt, and without AIRTABLE_API_KEY the Record Updater, called with a
\* record id, makes a single attempt; the run then ends as failed.
C13_MissingCredentialNotRetried ==
    \A r \in RunIds :
        /\ ~env.openrouter => SingleAttempt(r, "compare") /\ SingleAttempt(r, "generate")
        /\ ~env.airtable => SingleAttempt(r, "update")

\* Run r sends its update and the record takes its text.
WriteBy(r) ==
    /\ UpdateAttempt(r)
    /\ run'[r].pc = "completed"
    /\ crm'[run[r].upd.record_id] = run[r].upd.description

\* Both runs were handed to the Record Updater for the same record.
SameRecord(r, q) ==
    /\ r # q
    /\ run[r].pc \in {"update", "completed"}
    /\ run[q].pc \in {"update", "completed"}
    /\ run[r].upd.record_id \in RecordIds
    /\ run[q].upd.record_id = run[r].upd.record_id

\* C14: of two runs writing to one record, neither waits for, skips for or
\* checks the other: a run about to write can always send its write, whatever
\* the other run did and whatever the record holds; the record holds the text of
\* the run that wrote last, so once both are done it holds either run's text,
\* and each run has sent its own write.
C14_RacingWritesUnguarded ==
    \A r \in RunIds : \A q \in RunIds :
        (SameRecord(r, q) /\ env.airtable) =>
            /\ run[r].pc = "update" => ENABLED WriteBy(r)
            /\ (run[r].pc = "completed" /\ run[q].pc = "update")
                   => crm[run[r].upd.record_id] = run[r].upd.description
            /\ (run[r].pc = "completed" /\ run[q].pc = "completed") =>
                   /\ crm[run[r].upd.record_id]
                          \in {run[r].upd.description, run[q].upd.description}
                   /\ calls[r].crm_writes >= 1
                   /\ calls[q].crm_writes >= 1

\* Both runs wrote different texts to the record, and the first run's write
\* came last.
C14_Witness ==
    /\ SameRecord("r1", "r2")
    /\ run["r1"].pc = "completed"
    /\ run["r2"].pc = "completed"
    /\ run["r1"].upd.description # run["r2"].upd.description
    /\ calls["r1"].crm_writes >= 1
    /\ calls["r2"].crm_writes >= 1
    /\ crm[run["r1"].upd.record_id] = run["r1"].upd.description

\* The outbound calls of a run, stage by stage.
StageCalls(c) == <<c.profile, c.posts, c.compare, c.generate, c.crm_writes>>

\* C15: in one run the outbound calls come in the order profile fetch, posts
\* fetch, Change Detector call, Description Generator call, CRM write: a stage
\* has sent a call only if every earlier stage has sent one and returned its
\* result, and one step of the run sends the call of one stage only.
C15_StagesInOrder ==
    /\ [](\A r \in RunIds :
            /\ run[r].profil_data # NoProfile => calls[r].profile > 0
            /\ calls[r].posts > 0 => run[r].profil_data # NoProfile
            /\ run[r].profil_posts # NoPosts => calls[r].posts > 0
            /\ calls[r].compare > 0 => run[r].profil_posts # NoPosts
            /\ run[r].needs_update # NoVerdict => calls[r].compare > 0
            /\ calls[r].generate > 0 => run[r].needs_update # NoVerdict
            /\ run[r].gen_description # <<>> => calls[r].generate = 1
            /\ (calls[r].update_invocations > 0 \/ calls[r].api_clients > 0
                \/ calls[r].crm_writes > 0) => run[r].gen_description # <<>>)
    /\ [][\A r \in RunIds :
            Cardinality({i \in 1..5 : StageCalls(calls'[r])[i] # StageCalls(calls[r])[i]}) <= 1]_vars

C15_Witness ==
    \E r \in RunIds :
        /\ run[r].pc = "completed"
        /\ \A i \in 1..5 : StageCalls(calls[r])[i] >= 1
        /\ crm[run[r].upd.record_id] = run[r].upd.description

\* C16 (as claimed): the Change Detector makes at most 2 attempts, and fails the
\* run after exactly the 2nd.
C16_CompareTwoAttempts ==
    \A r \in RunIds :
        /\ calls[r].compare <= 2
        /\ RaisedAt(r, "compare") => run[r].attempts = 2

\* C16 (amended): the Change Detector makes at most 3 attempts (the first and 2
\* retries), 30 seconds apart; every attempt, also one after an answer that
\* could not be parsed, sends its own LLM call; when all 3 fail the run fails
\* with no verdict, no Description Generator call and no CRM write.
C16_CompareThreeAttempts ==
    \A r \in RunIds :
        /\ calls[r].compare <= 3
        /\ run[r].pc = "compare" =>
               /\ run[r].attempts <= 2
               /\ run[r].slept = 30 * run[r].attempts
        /\ (env.openrouter /\ (run[r].pc = "compare" \/ RaisedAt(r, "compare")))
               => calls[r].compare = run[r].attempts
        /\ RaisedAt(r, "compare") =>
               /\ run[r].attempts = 3
               /\ run[r].slept = 60
               /\ run[r].needs_update = NoVerdict
               /\ calls[r].generate = 0
               /\ calls[r].update_invocations = 0
               /\ calls[r].crm_writes = 0
               /\ crm = CrmInit

\* Three answers in a row could not be parsed: three LLM calls, then the
\* ValueError of the parse reached the flow.
C16_Witness ==
    \E r \in RunIds :
        /\ RaisedAt(r, "compare")
        /\ env.openrouter
        /\ run[r].error = "ValueError"
        /\ calls[r].compare = 3

\* The run has made no call of the Change Detector or of any later stage.
NothingFromCompareOn(r) ==
    /\ calls[r].compare = 0
    /\ calls[r].generate = 0
    /\ calls[r].update_invocations = 0
    /\ calls[r].api_clients = 0
    /\ calls[r].crm_writes = 0
    /\ crm = CrmInit

\* C17: a fetch or update task whose retries are used up ends the flow run with
\* its exception, and no later stage runs: after a failed profile fetch no
\* posts fetch, LLM call or CRM write is ever made, after a failed posts fetch
\* no LLM call or CRM write.
C17_TaskFailureEndsRun ==
    \A r \in RunIds :
        /\ run[r].failed_at \in {"profile", "posts", "update"} =>
               /\ run[r].pc = "raised"
               /\ run[r].attempts = 3
               /\ run[r].error # "none"
        /\ run[r].failed_at = "profile" =>
               /\ calls[r].posts = 0
               /\ run[r].profil_posts = NoPosts
               /\ NothingFromCompareOn(r)
        /\ run[r].failed_at = "posts" =>
               /\ run[r].recent_posts = <<>>
               /\ NothingFromCompareOn(r)
        /\ run[r].failed_at = "update" => calls[r].resume = 0

C17_Witness ==
    \E r \in RunIds :
        /\ RaisedAt(r, "profile")
        /\ calls[r].profile = 3
        /\ calls[r].posts = 0
        /\ NothingFromCompareOn(r)

\* C18: a run that has been triggered eventually ends, and stays, in one of the
\* outcomes completed, no-op at a gate (no LinkedIn URL, or a verdict that is
\* not true) or raised; no stage is attempted forever.
C18_RunTerminates ==
    \A r \in RunIds : Triggered(r) ~> [](run[r].pc \in Terminal)

\* A run that used every retry of every task and still completed.
C18_Witness ==
    \E r \in RunIds :
        /\ run[r].pc = "completed"
        /\ calls[r].profile = 3
        /\ calls[r].posts = 3
        /\ calls[r].compare = 3
        /\ calls[r].crm_writes = 3

\* C19: the flow's Description Generator call is made at most once per run and
\* never retried; when it raises, the run fails there and then, the Record
\* Updater is not called and no record is written.
C19_GeneratorNotRetried ==
    \A r \in RunIds :
        /\ calls[r].generate <= 1
        /\ (run[r].pc = "generate" \/ RaisedAt(r, "generate")) =>
               /\ run[r].attempts = 0
               /\ run[r].slept = 0
        /\ RaisedAt(r, "generate") =>
               /\ run[r].gen_description = <<>>
               /\ calls[r].update_invocations = 0
               /\ calls[r].api_clients = 0
               /\ calls[r].crm_writes = 0
               /\ crm = CrmInit

\* The one chat completion of the generator failed, in a run that had a record
\* id and the Airtable credential to write with.
C19_Witness ==
    \E r \in RunIds :
        /\ RaisedAt(r, "generate")
        /\ run[r].error = "APIError"
        /\ calls[r].generate = 1
        /\ Truthy(run[r].data.id)
        /\ env.airtable

\* The verdict is true and the payload has no id, or an empty one.
TrueVerdictNoId(r) ==
    /\ run[r].needs_update = "True"
    /\ run[r].data.id \in {Absent, ""}

\* The Record Updater was not called and nothing was written.
WriteSkipped(r) ==
    /\ calls[r].update_invocations = 0
    /\ calls[r].api_clients = 0
    /\ calls[r].crm_writes = 0
    /\ run[r].upd = NoArgs
    /\ crm = CrmInit

C21_NotifierNeverInvoked ==
    \A r \in RunIds :
        /\ calls[r].resume = 0
        /\ run[r].pc # "resume"
        /\ run[r].failed_at # "resume"

\* A run that wrote the record and completed, without a POST to the resume URL.
C21_Witness ==
    \E r \in RunIds :
        /\ run[r].pc = "completed"
        /\ calls[r].crm_writes >= 1
        /\ crm[run[r].upd.record_id] = run[r].upd.description
        /\ calls[r].resume = 0

\* update_at_record was called with a record id in an environment without
\* AIRTABLE_API_KEY, and at least one attempt has been made.
AttemptedWithoutCredential(r) ==
    /\ ~env.airtable
    /\ run[r].upd.record_id \in RecordIds
    /\ run[r].attempts >= 1

\* C22 (as claimed): the attempt raised without a record update, after it had
\* built the CRM client.
C22_CheckAfterClient ==
    \A r \in RunIds :
        AttemptedWithoutCredential(r) =>
            /\ calls[r].crm_writes = 0
            /\ calls[r].api_clients >= 1

\* C22 (amended): called with a record id and without the credential, every
\* attempt of update_at_record raises ValueError before any CRM client is built
\* and without a record update; no record changes and the call never returns.
C22_CheckBeforeClient ==
    \A r \in RunIds :
        (~env.airtable /\ run[r].upd.record_id \in RecordIds) =>
            /\ calls[r].api_clients = 0
            /\ calls[r].crm_writes = 0
            /\ crm = CrmInit
            /\ run[r].pc \in {"update", "raised"}
            /\ run[r].pc = "raised" =>
                   /\ run[r].failed_at = "update"
                   /\ run[r].error = "ValueError"

C22_Witness ==
    \E r \in RunIds :
        /\ AttemptedWithoutCredential(r)
        /\ RaisedAt(r, "update")
        /\ run[r].error = "ValueError"
        /\ calls[r].api_clients = 0

\* C23: a verdict object without a toUpdate key, or with toUpdate null, makes
\* does_profile_need_update return None: the attempt counts as a success (no
\* retry follows it), the flow takes None as no update needed, makes no
\* Description Generator call and no CRM write, and returns without raising.
C23_MissingVerdictNoop ==
    \A r \in RunIds :
        run[r].needs_update = PyNone =>
            /\ run[r].pc \in {"gate", "noop_verdict"}
            /\ run[r].attempts = 0
            /\ run[r].slept = 0
            /\ run[r].error = "none"
            /\ calls[r].compare \in 1..3
            /\ calls[r].generate = 0
            /\ calls[r].update_invocations = 0
            /\ calls[r].api_clients = 0
            /\ calls[r].crm_writes = 0
            /\ crm = CrmInit

\* The first answer of the model had no toUpdate, and the run returned.
C23_Witness ==
    \E r \in RunIds :
        /\ run[r].needs_update = PyNone
        /\ run[r].pc = "noop_verdict"
        /\ calls[r].compare = 1

\* The profile body the run fetched has no data object: the key is missing
\* (as in an API error body) or null.
NoDataObject(r) == run[r].profil_data.data \in {Absent, PyNone}

\* C24 (as claimed): a run that fetched a profile body without a data object
\* writes nothing and, once ended, has raised.
C24_NoDataAlwaysRaises ==
    \A r \in RunIds :
        NoDataObject(r) =>
            /\ WriteSkipped(r)
            /\ run[r].pc \in Terminal => run[r].pc = "raised"

\* C24 (amended): a run that fetched a profile body without a data object
\* never calls the Description Generator or the Record Updater and writes
\* nothing. With data null it raises AttributeError while the comparison prompt
\* is built, before any LLM call. With data missing the Change Detector is
\* asked: on a truthy verdict the run raises AttributeError before the
\* Description Generator call, on any other verdict it returns as a no-op
\* without raising.
C24_NoDataNeverWrites ==
    \A r \in RunIds :
        NoDataObject(r) =>
            /\ WriteSkipped(r)
            /\ calls[r].generate = 0
            /\ run[r].gen_description = <<>>
            /\ run[r].profil_data.data = PyNone =>
                   /\ calls[r].compare = 0
                   /\ run[r].pc \in {"posts", "filter", "prompt", "raised"}
                   /\ RaisedAt(r, "prompt") => run[r].error = "AttributeError"
            /\ run[r].pc \in Terminal =>
                   \/ run[r].pc = "raised"
                   \/ /\ run[r].pc = "noop_verdict"
                      /\ run[r].profil_data.data = Absent
                      /\ ~VerdictTruthy(run[r].needs_update)
            /\ (run[r].pc \in Terminal /\ run[r].needs_update # NoVerdict
                /\ VerdictTruthy(run[r].needs_update)) =>
                   /\ RaisedAt(r, "generate")
                   /\ run[r].error = "AttributeError"

\* An error body came back, the verdict was true, and the run raised before
\* the generator call although it had a record id and the credential to write.
C24_Witness ==
    \E r \in RunIds :
        /\ run[r].profil_data.data = Absent
        /\ run[r].profil_data.status = 404
        /\ run[r].needs_update = "True"
        /\ RaisedAt(r, "generate")
        /\ run[r].error = "AttributeError"
        /\ Truthy(run[r].data.id)
        /\ env.airtable
        /\ WriteSkipped(r)

\* The posts body the run fetched has a post whose posted value is non-empty
\* and not of the form YYYY-MM-DD HH:MM:SS.
HasMalformedPost(r) ==
    \E i \in 1..Len(PostsData(run[r].profil_posts)) :
        PostsData(run[r].profil_posts)[i].posted.kind = "malformed"

\* C25: a run that fetched such a post raises ValueError in the filter, after
\* both fetches and before the Change Detector: it keeps no posts, makes no LLM
\* call and no CRM write, and the filter is not tried again.
C25_MalformedPostedRaises ==
    \A r \in RunIds :
        HasMalformedPost(r) =>
            /\ run[r].pc \in {"filter", "raised"}
            /\ run[r].pc = "raised" =>
                   /\ run[r].failed_at = "filter"
                   /\ run[r].error = "ValueError"
            /\ run[r].attempts = 0
            /\ run[r].slept = 0
            /\ calls[r].profile >= 1
            /\ calls[r].posts >= 1
            /\ run[r].profil_data # NoProfile
            /\ run[r].recent_posts = <<>>
            /\ run[r].needs_update = NoVerdict
            /\ calls[r].compare = 0
            /\ calls[r].generate = 0
            /\ WriteSkipped(r)

C25_Witness ==
    \E r \in RunIds :
        /\ HasMalformedPost(r)
        /\ RaisedAt(r, "filter")
        /\ run[r].error = "ValueError"
        /\ calls[r].profile = 1
        /\ calls[r].posts = 1
        /\ calls[r].compare = 0

====
